---------------------------- MODULE Spec2Model ----------------------------
(***************************************************************************)
(* The chat request broker of the Digital Field Assistant:                 *)
(*   - the /api/chat route handler POST (src/unnamed/part_006),            *)
(*   - the provider clients and dispatcher of lib/aiFoundry.ts, and        *)
(*   - the ChatPanel component that posts to it (src/unnamed/part_004).    *)
(*                                                                         *)
(* JavaScript strings are TLA+ strings (TLC evaluates Len, \o, SubSeq,     *)
(* Head and Tail on them).  A value that may be undefined is an option:    *)
(* None for undefined, Some(v) otherwise.                                  *)
(*                                                                         *)
(* The request span is the sequence of the records the handler puts on it  *)
(* (events, recorded exceptions, the child spans of emitGenAiSpan, its     *)
(* end).  The OpenTelemetry API does not raise; the variable fault names   *)
(* the observability call that raises all the same, and is "none" in the   *)
(* specification Spec.  AI_FOUNDRY_EMIT_EVAL is taken as unset.            *)
(***************************************************************************)
EXTENDS Integers, Sequences, FiniteSets, TLC

VARIABLES
    env,        \* process.env: the configuration surface
    pc,         \* position of the request: idle, parsing, awaiting, done
                \* (a response was returned), failed (POST threw)
    body,       \* the inbound request body
    sanitized,  \* POST's sanitizedMessages
    prepared,   \* POST's preparedMessages, handed to completeChatAuto
    mode,       \* the provider client completeChatAuto invoked
    fallback,   \* TRUE when that client answered with the simulated reply
    outbound,   \* the outbound provider calls made for this request
    upstream,   \* what the provider answered to the outbound call
    response,   \* the HTTP response of the request
    events,     \* the records put on the request span, in order
    fault,      \* the observability call that raises, or "none"
    reqs,       \* the requests in flight when POST runs concurrently
    logs,       \* what the request wrote to the console, in order
    ui          \* the state of the ChatPanel component in the browser

vars == <<env, pc, body, sanitized, prepared, mode, fallback, outbound,
          upstream, response, events, fault, reqs, logs, ui>>

----------------------------------------------------------------------------
(* Options and strings *)

None == <<>>

Some(v) == <<v>>

IsSome(o) == Len(o) > 0

Val(o) == o[1]

\* a ?? b
Nullish(o, d) == IF IsSome(o) THEN Val(o) ELSE d

\* Truthiness of an optional string: defined and not "".
Truthy(o) == IsSome(o) /\ Val(o) # ""

\* The characters String.prototype.trim removes (those the model uses).
WhiteSpace == {" ", "\t", "\n", "\r"}

RECURSIVE TrimStart(_)
TrimStart(s) ==
    IF Len(s) > 0 /\ Head(s) \in WhiteSpace THEN TrimStart(Tail(s)) ELSE s

RECURSIVE TrimEnd(_)
TrimEnd(s) ==
    IF Len(s) > 0 /\ SubSeq(s, Len(s), Len(s)) \in WhiteSpace
    THEN TrimEnd(SubSeq(s, 1, Len(s) - 1))
    ELSE s

\* String.prototype.trim
Trim(s) == TrimEnd(TrimStart(s))

\* String.prototype.slice(0, n) for n >= 0
Slice0(s, n) == IF Len(s) <= n THEN s ELSE SubSeq(s, 1, n)

StartsWith(s, p) == Len(p) <= Len(s) /\ SubSeq(s, 1, Len(p)) = p

\* String.prototype.includes
Contains(s, p) ==
    \E i \in 1..(Len(s) - Len(p) + 1) : SubSeq(s, i, i + Len(p) - 1) = p

RECURSIVE Rep(_, _)
Rep(s, n) ==
    IF n = 0 THEN ""
    ELSE IF n % 2 = 1 THEN s \o Rep(s, n - 1)
    ELSE LET h == Rep(s, n \div 2) IN h \o h

\* Array.prototype.join
RECURSIVE Join(_, _)
Join(parts, sep) ==
    IF Len(parts) = 0 THEN ""
    ELSE IF Len(parts) = 1 THEN parts[1]
    ELSE parts[1] \o sep \o Join(Tail(parts), sep)

\* All sequences over S of length 0..n
SeqUpTo(S, n) == UNION {[1..k -> S] : k \in 0..n}

----------------------------------------------------------------------------
(* Bounds and program constants *)

\* Longest inbound message list.
MaxTurns == 2

\* The content limit of the sanitizer: slice(0, 6_000).
MaxContent == 6000

----------------------------------------------------------------------------
(* The inputs: configuration, request bodies *)

\* A string of exactly the limit.
ExactText == Rep("ab", MaxContent \div 2)

\* A string one character longer than the limit; its last character differs.
LongText == ExactText \o "c"

\* process.env with every variable a provider is configured with, and the
\* variables that tune the call left unset
BaseEnvs ==
    [ AI_FOUNDRY_ENDPOINT          : {None, Some("contoso.example")},
      AI_FOUNDRY_API_KEY           : {None, Some("secret")},
      AI_FOUNDRY_CHAT_DEPLOYMENT   : {None, Some("gpt-4o")},
      AI_FOUNDRY_DEPLOYMENT        : {None, Some("legacy")},
      AI_FOUNDRY_AGENT_ID          : {None, Some(""), Some("agent-7")},
      AI_FOUNDRY_SYSTEM_PROMPT     : {None, Some("  "), Some(" Be brief. "),
                                      Some(LongText)},
      AI_FOUNDRY_API_VERSION       : {None},
      AI_FOUNDRY_AGENT_API_VERSION : {None},
      AI_FOUNDRY_TEMPERATURE       : {None},
      AI_FOUNDRY_TOP_P             : {None},
      LOG_VERBOSE                  : {None} ]

\* A complete Direct Mode configuration, and a complete Agent Mode one.
DirectEnv ==
    [ AI_FOUNDRY_ENDPOINT          |-> Some("contoso.example"),
      AI_FOUNDRY_API_KEY           |-> Some("secret"),
      AI_FOUNDRY_CHAT_DEPLOYMENT   |-> Some("gpt-4o"),
      AI_FOUNDRY_DEPLOYMENT        |-> None,
      AI_FOUNDRY_AGENT_ID          |-> None,
      AI_FOUNDRY_SYSTEM_PROMPT     |-> None,
      AI_FOUNDRY_API_VERSION       |-> None,
      AI_FOUNDRY_AGENT_API_VERSION |-> None,
      AI_FOUNDRY_TEMPERATURE       |-> None,
      AI_FOUNDRY_TOP_P             |-> None,
      LOG_VERBOSE                  |-> None ]

AgentEnv == [DirectEnv EXCEPT !.AI_FOUNDRY_AGENT_ID = Some("agent-7")]

\* The texts a sampling parameter is configured with: unset, empty, blank,
\* decimal numbers, padded or not, and texts that are no number.
NumericTexts ==
    {None, Some(""), Some(" "), Some("0.7"), Some(" 1 "), Some("-0.50"),
     Some("abc"), Some("0.7x"), Some(".")}

\* The values of LOG_VERBOSE
VerboseTexts == {None, Some("true"), Some("TRUE"), Some("false")}

\* The complete configurations with the variables that tune the call set:
\* sampling parameters, API versions, verbose logging.
TunedEnvs ==
    { [DirectEnv EXCEPT !.AI_FOUNDRY_TEMPERATURE = t] : t \in NumericTexts }
    \cup
    { [DirectEnv EXCEPT !.AI_FOUNDRY_TEMPERATURE = Some("0.7"),
                        !.AI_FOUNDRY_TOP_P = q] :
        q \in {Some("0.95"), Some("high")} }
    \cup
    { [base EXCEPT !.AI_FOUNDRY_API_VERSION = v,
                   !.AI_FOUNDRY_AGENT_API_VERSION = a] :
        base \in {DirectEnv, AgentEnv},
        v \in {None, Some("2025-01-01")},
        a \in {Some(""), Some("2025-03-01-preview")} }
    \cup
    { [base EXCEPT !.LOG_VERBOSE = l] :
        base \in {DirectEnv, AgentEnv}, l \in VerboseTexts }

\* process.env, the variables the broker reads
Envs == BaseEnvs \cup TunedEnvs

\* Inbound turns {role?, content?}: every role, a missing one and one that
\* is no chat role; content missing, short, of exactly the limit and beyond.
RawTurns ==
    { [role |-> Some("user"),      content |-> Some("Hello")],
      [role |-> None,              content |-> Some("Status?")],
      [role |-> Some("user"),      content |-> None],
      [role |-> Some("system"),    content |-> Some("Rules")],
      [role |-> Some("assistant"), content |-> Some(ExactText)],
      [role |-> Some("user"),      content |-> Some(LongText)],
      [role |-> Some("tool"),      content |-> Some("42")] }

\* The request body: not JSON, the JSON value null, or a JSON object
\* {messages?}
Bodies ==
    {[kind |-> "invalid_json", messages |-> None]}
    \cup {[kind |-> "null", messages |-> None]}
    \cup {[kind |-> "object", messages |-> None]}
    \cup {[kind |-> "object", messages |-> Some(ms)] :
            ms \in SeqUpTo(RawTurns, MaxTurns)}

\* What client.chat.completions.create can do: reject with an Error, reject
\* with something else, or resolve with {choices:[{message:{content}}], usage},
\* the usage {prompt_tokens, completion_tokens?, total_tokens?}.
DirectReplies ==
    { [kind |-> "throws", isError |-> TRUE,
       message |-> "401 Incorrect API key provided"],
      [kind |-> "throws", isError |-> FALSE, message |-> ""] }
    \cup { [kind |-> "ok", content |-> c, usage |-> None] :
             c \in {None, Some(""), Some(" \n ")} }
    \cup { [kind |-> "ok", content |-> Some(" Hi "), usage |-> u] :
             u \in {None} \cup
                   { Some([prompt_tokens |-> Some(5), completion_tokens |-> c,
                          total_tokens |-> t]) :
                       c \in {None, Some(2)}, t \in {None, Some(9)} } }

\* Content items of an agent output block: {text:{value}} or {value}.
TextItem(s) == [text |-> Some([value |-> Some(s)]), value |-> None]

ValueItem(s) == [text |-> None, value |-> Some(s)]

\* Agent response payloads {output?, usage?, warnings?}
AgentPayloads ==
    { [output |-> None, usage |-> None, warnings |-> None],
      [output |-> Some(<< [role |-> Some("user"),
                           content |-> Some(<<TextItem("Hello")>>)] >>),
       usage |-> None, warnings |-> None],
      [output |-> Some(<< [role |-> Some("assistant"),
                           content |-> Some(<<TextItem("  "), ValueItem("")>>)] >>),
       usage |-> None, warnings |-> None],
      [output |-> Some(<< [role |-> Some("assistant"),
                           content |-> Some(<<TextItem(" Hi "), ValueItem("there")>>)] >>),
       usage |-> None, warnings |-> None],
      [output |-> Some(<< [role |-> Some("user"),
                           content |-> Some(<<ValueItem("Hello")>>)],
                          [role |-> Some("assistant"),
                           content |-> Some(<<ValueItem("Done.")>>)] >>),
       usage |-> Some([input_tokens |-> Some(5), output_tokens |-> Some(2),
                       prompt_tokens |-> None, completion_tokens |-> None,
                       total_tokens |-> None]),
       warnings |-> Some(<< [message |-> Some("rate limited")],
                            [message |-> None] >>)],
      [output |-> Some(<< [role |-> Some("assistant"),
                           content |-> Some(<<ValueItem("Done.")>>)] >>),
       usage |-> Some([input_tokens |-> None, output_tokens |-> None,
                       prompt_tokens |-> Some(5), completion_tokens |-> Some(2),
                       total_tokens |-> None]),
       warnings |-> None],
      [output |-> Some(<< [role |-> Some("assistant"),
                           content |-> Some(<<ValueItem("Done.")>>)] >>),
       usage |-> Some([input_tokens |-> Some(5), output_tokens |-> Some(2),
                       prompt_tokens |-> None, completion_tokens |-> None,
                       total_tokens |-> Some(9)]),
       warnings |-> None],
      [output |-> Some(<< [role |-> Some("assistant"),
                           content |-> Some(<<TextItem(" A "), ValueItem("  ")>>)],
                          [role |-> Some("user"),
                           content |-> Some(<<TextItem("x")>>)],
                          [role |-> Some("assistant"), content |-> None],
                          [role |-> None,
                           content |-> Some(<<ValueItem("y")>>)],
                          [role |-> Some("assistant"),
                           content |-> Some(<<ValueItem("B\n")>>)] >>),
       usage |-> None, warnings |-> None] }

\* What the agent endpoint can do: fetch rejects, a non-success status, a
\* success status whose body is not JSON, or a success status with a payload.
AgentReplies ==
    { [kind |-> "fetch_rejects", message |-> "fetch failed"],
      [kind |-> "http_error", status |-> 500, text |-> "boom",
       statusText |-> "Internal Server Error"],
      [kind |-> "http_error", status |-> 404, text |-> "",
       statusText |-> "Not Found"],
      [kind |-> "bad_json", message |-> "Unexpected token < in JSON"] }
    \cup { [kind |-> "ok", data |-> d] : d \in AgentPayloads }

NoResponse == [status |-> 0, body |-> [error |-> ""]]

NoReply == [kind |-> "none"]

----------------------------------------------------------------------------
(* lib/aiFoundry.ts *)

\* A CompletionResult {content, warnings?, usage?}
Result(content, warnings, usage) ==
    [content |-> content, warnings |-> warnings, usage |-> usage]

\* What a provider client does with the conversation: returns a result
\* without a call, or issues the outbound call and suspends on it.
Returned(m, result) ==
    [mode |-> m, call |-> FALSE, result |-> result, request |-> <<>>]

Called(m, request) ==
    [mode |-> m, call |-> TRUE, result |-> Result("", None, None),
     request |-> request]

\* How a provider client settles: a result, or a thrown Error's message.
Resolved(result) == [ok |-> TRUE, result |-> result, message |-> ""]

Thrown(message) ==
    [ok |-> FALSE, result |-> Result("", None, None), message |-> message]

\* Mutant of LatestUserIndex: find without reverse, the first user turn.
LatestUserIndex_First(messages) ==
    LET us == {i \in 1..Len(messages) : messages[i].role = "user"}
    IN  IF us = {} THEN 0 ELSE CHOOSE i \in us : \A j \in us : i <= j

\* [...messages].reverse().find(m => m.role === "user")
LatestUserIndex(messages) ==
    LET us == {i \in 1..Len(messages) : messages[i].role = "user"}
    IN  IF us = {} THEN 0 ELSE CHOOSE i \in us : \A j \in us : j <= i

buildDemoResponse(messages) ==
    LET k == LatestUserIndex(messages)
    IN  IF k = 0
        THEN "Ask a question to see the assistant's recommendations."
        ELSE "I understand you're asking: "
             \o "\"" \o messages[k].content \o "\"."
             \o "\n\nOnce the Azure AI Foundry deployment is wired up, this response will come directly from your configured model. "
             \o "For now, consider drafting a follow-up action plan or requesting data from Fabric when the integration is ready."

\* The simulated reply of completeChatWithAgent
AgentFallbackResult(messages) ==
    Result("WARNING: Azure AI Foundry agent configuration not set. Provide AI_FOUNDRY_AGENT_ID in .env.local.\n\n"
               \o buildDemoResponse(messages),
           Some(<<"Set AI_FOUNDRY_ENDPOINT, AI_FOUNDRY_API_KEY, and AI_FOUNDRY_AGENT_ID to use agent mode.">>),
           None)

\* Mutant of DirectFallbackResult: the agent client's text, pasted.
DirectFallbackResult_AgentText(messages) == AgentFallbackResult(messages)

\* The simulated reply of completeChatWithAiFoundry
DirectFallbackResult(messages) ==
    Result("WARNING: Azure AI Foundry credentials are not configured yet. Here's a simulated response so you can keep exploring the assistant.\n\n"
               \o buildDemoResponse(messages),
           Some(<<"Set AI_FOUNDRY_ENDPOINT, AI_FOUNDRY_API_KEY, and AI_FOUNDRY_CHAT_DEPLOYMENT in .env.local to connect to your Azure project.">>),
           None)

\* A JavaScript number: NaN, or the decimal num/den, den a power of ten and
\* the fraction in lowest decimal terms.
NaN == [nan |-> TRUE, num |-> 0, den |-> 1]

RECURSIVE Decimal(_, _)
Decimal(n, d) ==
    IF d > 1 /\ n % 10 = 0 THEN Decimal(n \div 10, d \div 10)
    ELSE [nan |-> FALSE, num |-> n, den |-> d]

Digits == {"0", "1", "2", "3", "4", "5", "6", "7", "8", "9"}

DigitValue(c) ==
    CASE c = "0" -> 0 [] c = "1" -> 1 [] c = "2" -> 2 [] c = "3" -> 3
      [] c = "4" -> 4 [] c = "5" -> 5 [] c = "6" -> 6 [] c = "7" -> 7
      [] c = "8" -> 8 [] OTHER -> 9

RECURSIVE AllDigits(_)
AllDigits(s) ==
    \/ s = ""
    \/ /\ SubSeq(s, 1, 1) \in Digits
       /\ AllDigits(Tail(s))

\* The value of a string of digits, 0 for the empty one.
RECURSIVE DigitsValue(_, _)
DigitsValue(s, acc) ==
    IF s = "" THEN acc
    ELSE DigitsValue(Tail(s), 10 * acc + DigitValue(SubSeq(s, 1, 1)))

RECURSIVE Pow10(_)
Pow10(k) == IF k = 0 THEN 1 ELSE 10 * Pow10(k - 1)

\* The position of the first "." of s, or 0.
RECURSIVE DotIndex(_, _)
DotIndex(s, i) ==
    IF i > Len(s) THEN 0
    ELSE IF SubSeq(s, i, i) = "." THEN i
    ELSE DotIndex(s, i + 1)

\* Number(text), for texts without exponent, radix prefix or Infinity:
\* surrounding white space is dropped, the blank text is 0, a decimal
\* literal (digits, "digits.", ".digits", "digits.digits", with an optional
\* sign) is its value, anything else is NaN.
Number(text) ==
    LET t        == Trim(text)
        signed   == t # "" /\ SubSeq(t, 1, 1) \in {"-", "+"}
        negative == t # "" /\ SubSeq(t, 1, 1) = "-"
        u        == IF signed THEN Tail(t) ELSE t
        k        == DotIndex(u, 1)
        whole    == IF k = 0 THEN u ELSE SubSeq(u, 1, k - 1)
        frac     == IF k = 0 THEN "" ELSE SubSeq(u, k + 1, Len(u))
    IN  IF t = "" THEN Decimal(0, 1)
        ELSE IF (whole = "" /\ frac = "") \/ ~AllDigits(whole) \/ ~AllDigits(frac)
        THEN NaN
        ELSE LET magnitude == DigitsValue(whole \o frac, 0)
             IN  Decimal(IF negative THEN 0 - magnitude ELSE magnitude,
                         Pow10(Len(frac)))

parseOptionalNumber(value) ==
    IF value = None \/ value = Some("") THEN None
    ELSE LET parsed == Number(Val(value))
         IN  IF parsed.nan THEN None ELSE Some(parsed)

\* Mutant of DirectApiVersion: the version was fixed when the module loaded.
DirectApiVersion_AtLoad(e) == "2024-12-01-preview"

\* The API version of the chat completions client
DirectApiVersion(e) == Nullish(e.AI_FOUNDRY_API_VERSION, "2024-12-01-preview")

\* The API version of the agent call: the first of the two variables that
\* is set and not empty
AgentApiVersion(e) ==
    IF Truthy(e.AI_FOUNDRY_AGENT_API_VERSION)
    THEN Val(e.AI_FOUNDRY_AGENT_API_VERSION)
    ELSE IF Truthy(e.AI_FOUNDRY_API_VERSION)
    THEN Val(e.AI_FOUNDRY_API_VERSION)
    ELSE "2024-12-01-preview"

\* process.env.AI_FOUNDRY_CHAT_DEPLOYMENT ?? process.env.AI_FOUNDRY_DEPLOYMENT
DeploymentOf(e) ==
    IF IsSome(e.AI_FOUNDRY_CHAT_DEPLOYMENT)
    THEN e.AI_FOUNDRY_CHAT_DEPLOYMENT
    ELSE e.AI_FOUNDRY_DEPLOYMENT

\* Mutant of DirectConfigMissing: the key is not checked.
DirectConfigMissing_KeyUnchecked(e) ==
    \/ ~Truthy(e.AI_FOUNDRY_ENDPOINT)
    \/ ~Truthy(DeploymentOf(e))

\* !endpoint || !apiKey || !deployment
DirectConfigMissing(e) ==
    \/ ~Truthy(e.AI_FOUNDRY_ENDPOINT)
    \/ ~Truthy(e.AI_FOUNDRY_API_KEY)
    \/ ~Truthy(DeploymentOf(e))

\* Mutant of AgentConfigMissing: only the agent id is checked.
AgentConfigMissing_IdOnly(e) == ~Truthy(e.AI_FOUNDRY_AGENT_ID)

\* !endpoint || !apiKey || !agentId
AgentConfigMissing(e) ==
    \/ ~Truthy(e.AI_FOUNDRY_ENDPOINT)
    \/ ~Truthy(e.AI_FOUNDRY_API_KEY)
    \/ ~Truthy(e.AI_FOUNDRY_AGENT_ID)

\* completeChatWithAiFoundry, up to its await
completeChatWithAiFoundry(e, messages) ==
    IF DirectConfigMissing(e)
    THEN Returned("direct", DirectFallbackResult(messages))
    ELSE Called("direct",
                << [api |-> "chat.completions",
                    deployment |-> Val(DeploymentOf(e)),
                    apiVersion |-> DirectApiVersion(e),
                    messages |-> messages,
                    temperature |->
                        parseOptionalNumber(e.AI_FOUNDRY_TEMPERATURE),
                    top_p |-> parseOptionalNumber(e.AI_FOUNDRY_TOP_P)] >>)

\* Mutant of completeChatWithAgent: only the latest turn is sent as input.
completeChatWithAgent_LatestOnly(e, messages) ==
    IF AgentConfigMissing(e)
    THEN Returned("agent", AgentFallbackResult(messages))
    ELSE Called("agent",
                << [api |-> "agents.responses",
                    agentId |-> Val(e.AI_FOUNDRY_AGENT_ID),
                    apiVersion |-> AgentApiVersion(e),
                    input |-> << [role |-> messages[Len(messages)].role,
                                  content |-> messages[Len(messages)].content] >>] >>)

\* completeChatWithAgent, up to its await
completeChatWithAgent(e, messages) ==
    IF AgentConfigMissing(e)
    THEN Returned("agent", AgentFallbackResult(messages))
    ELSE Called("agent",
                << [api |-> "agents.responses",
                    agentId |-> Val(e.AI_FOUNDRY_AGENT_ID),
                    apiVersion |-> AgentApiVersion(e),
                    input |-> [i \in 1..Len(messages) |->
                                 [role |-> messages[i].role,
                                  content |-> messages[i].content]]] >>)

\* Mutant of completeChatAuto: a configured deployment is preferred to the agent.
completeChatAuto_DeploymentFirst(e, messages) ==
    IF Truthy(DeploymentOf(e)) \/ ~Truthy(e.AI_FOUNDRY_AGENT_ID)
    THEN completeChatWithAiFoundry(e, messages)
    ELSE completeChatWithAgent(e, messages)

\* Mutant of completeChatAuto: the dispatcher suspends before the client runs,
\* and the client reads a configuration from which the key has been removed.
completeChatAuto_SuspendsBeforeClient(e, messages) ==
    IF Truthy(e.AI_FOUNDRY_AGENT_ID)
    THEN completeChatWithAgent([e EXCEPT !.AI_FOUNDRY_API_KEY = None], messages)
    ELSE completeChatWithAiFoundry([e EXCEPT !.AI_FOUNDRY_API_KEY = None],
                                   messages)

\* completeChatAuto
completeChatAuto(e, messages) ==
    IF Truthy(e.AI_FOUNDRY_AGENT_ID)
    THEN completeChatWithAgent(e, messages)
    ELSE completeChatWithAiFoundry(e, messages)

\* Mutant of DirectUsage: the total is the prompt counter alone.
DirectUsage_TotalIsPrompt(usage) ==
    IF IsSome(usage)
    THEN LET u == Val(usage)
         IN  Some([input_tokens      |-> u.prompt_tokens,
                   output_tokens     |-> u.completion_tokens,
                   prompt_tokens     |-> u.prompt_tokens,
                   completion_tokens |-> u.completion_tokens,
                   total_tokens      |-> Some(Nullish(u.prompt_tokens, 0))])
    ELSE None

\* The usage mapping of completeChatWithAiFoundry
DirectUsage(usage) ==
    IF IsSome(usage)
    THEN LET u == Val(usage)
         IN  Some([input_tokens      |-> u.prompt_tokens,
                   output_tokens     |-> u.completion_tokens,
                   prompt_tokens     |-> u.prompt_tokens,
                   completion_tokens |-> u.completion_tokens,
                   total_tokens      |->
                       Some(Nullish(u.prompt_tokens, 0)
                            + Nullish(u.completion_tokens, 0))])
    ELSE None

\* Mutant of DirectSettle: the completion text is returned without the
\* empty check.
DirectSettle_NoEmptyCheck(reply) ==
    IF reply.kind = "ok"
    THEN Resolved(Result(IF IsSome(reply.content)
                         THEN Trim(Val(reply.content)) ELSE "",
                         None, DirectUsage(reply.usage)))
    ELSE Thrown("Azure AI Foundry request failed: "
                \o (IF reply.isError THEN reply.message
                    ELSE "Unknown error occurred while calling Azure AI Foundry"))

\* completeChatWithAiFoundry, from the settling of its await
DirectSettle(reply) ==
    IF reply.kind = "ok"
    THEN LET text == IF IsSome(reply.content)
                     THEN Trim(Val(reply.content)) ELSE ""
         IN  IF text = ""
             THEN Thrown("Azure AI Foundry request failed: "
                         \o "Azure AI Foundry returned an empty response")
             ELSE Resolved(Result(text, None, DirectUsage(reply.usage)))
    ELSE Thrown("Azure AI Foundry request failed: "
                \o (IF reply.isError THEN reply.message
                    ELSE "Unknown error occurred while calling Azure AI Foundry"))

\* c.text?.value || c.value, kept when it is a string that trims non-empty
ItemSegments(c) ==
    LET val == IF IsSome(c.text) /\ Truthy(Val(c.text).value)
               THEN Val(c.text).value ELSE c.value
    IN  IF IsSome(val) /\ Trim(Val(val)) # "" THEN <<Trim(Val(val))>> ELSE <<>>

RECURSIVE ContentSegments(_)
ContentSegments(items) ==
    IF Len(items) = 0 THEN <<>>
    ELSE ItemSegments(Head(items)) \o ContentSegments(Tail(items))

\* Mutant of BlockSegments: the role of the block is not looked at.
BlockSegments_AnyRole(block) ==
    IF IsSome(block.content)
    THEN ContentSegments(Val(block.content)) ELSE <<>>

\* block.role === "assistant" && block.content
BlockSegments(block) ==
    IF block.role = Some("assistant") /\ IsSome(block.content)
    THEN ContentSegments(Val(block.content)) ELSE <<>>

RECURSIVE OutputSegments(_)
OutputSegments(blocks) ==
    IF Len(blocks) = 0 THEN <<>>
    ELSE BlockSegments(Head(blocks)) \o OutputSegments(Tail(blocks))

\* x || 0 for an optional number
OrZero(o) == IF IsSome(o) THEN Val(o) ELSE 0

\* The usage mapping of completeChatWithAgent
AgentUsage(usage) ==
    IF IsSome(usage)
    THEN LET u == Val(usage)
         IN  Some([input_tokens      |->
                       IF IsSome(u.prompt_tokens) THEN u.prompt_tokens
                       ELSE u.input_tokens,
                   output_tokens     |->
                       IF IsSome(u.completion_tokens) THEN u.completion_tokens
                       ELSE u.output_tokens,
                   prompt_tokens     |-> u.prompt_tokens,
                   completion_tokens |-> u.completion_tokens,
                   total_tokens      |->
                       IF IsSome(u.total_tokens) THEN u.total_tokens
                       ELSE Some(OrZero(u.prompt_tokens)
                                 + OrZero(u.completion_tokens))])
    ELSE None

\* data.warnings?.map(w => w.message || "Agent warning") || undefined
AgentWarnings(warnings) ==
    IF IsSome(warnings)
    THEN Some([i \in 1..Len(Val(warnings)) |->
                 IF Truthy(Val(warnings)[i].message)
                 THEN Val(Val(warnings)[i].message) ELSE "Agent warning"])
    ELSE None

\* Mutant of AgentSettle: a success status is returned whatever was parsed.
AgentSettle_NoEmptyCheck(reply) ==
    IF reply.kind = "ok"
    THEN Resolved(Result(Trim(Join(OutputSegments(Nullish(reply.data.output, <<>>)),
                                   "\n\n")),
                         AgentWarnings(reply.data.warnings),
                         AgentUsage(reply.data.usage)))
    ELSE Thrown("Azure AI Foundry agent request failed: " \o reply.kind)

\* Mutant of AgentSettle: the error of a non-success status carries the
\* response text and not the status.
AgentSettle_StatusOmitted(reply) ==
    LET failed(message) ==
            Thrown("Azure AI Foundry agent request failed: " \o message)
    IN  CASE reply.kind = "fetch_rejects" -> failed(reply.message)
          [] reply.kind = "http_error" ->
                failed("Agent invocation failed: "
                       \o (IF reply.text # "" THEN reply.text
                           ELSE reply.statusText))
          [] reply.kind = "bad_json" -> failed(reply.message)
          [] OTHER ->
                LET combined ==
                        Trim(Join(OutputSegments(Nullish(reply.data.output, <<>>)),
                                  "\n\n"))
                IN  IF combined = ""
                    THEN failed("Agent returned empty output segment")
                    ELSE Resolved(Result(combined,
                                         AgentWarnings(reply.data.warnings),
                                         AgentUsage(reply.data.usage)))

\* completeChatWithAgent, from the settling of fetch to its return or throw
AgentSettle(reply) ==
    LET failed(message) ==
            Thrown("Azure AI Foundry agent request failed: " \o message)
    IN  CASE reply.kind = "fetch_rejects" -> failed(reply.message)
          [] reply.kind = "http_error" ->
                failed("Agent invocation failed (" \o ToString(reply.status)
                       \o "): "
                       \o (IF reply.text # "" THEN reply.text
                           ELSE reply.statusText))
          [] reply.kind = "bad_json" -> failed(reply.message)
          [] OTHER ->
                LET combined ==
                        Trim(Join(OutputSegments(Nullish(reply.data.output, <<>>)),
                                  "\n\n"))
                IN  IF combined = ""
                    THEN failed("Agent returned empty output segment")
                    ELSE Resolved(Result(combined,
                                         AgentWarnings(reply.data.warnings),
                                         AgentUsage(reply.data.usage)))

----------------------------------------------------------------------------
(* app/api/chat/route.ts *)

\* Mutant of hasSystemRole: only the first turn is inspected.
hasSystemRole_FirstOnly(messages) ==
    Len(messages) > 0 /\ messages[1].role = "system"

hasSystemRole(messages) ==
    \E i \in 1..Len(messages) : messages[i].role = "system"

\* Mutant of SanitizeMessage: slice(0, 5_999).
SanitizeMessage_OffByOne(message) ==
    [role    |-> Nullish(message.role, "user"),
     content |-> Slice0(Nullish(message.content, ""), MaxContent - 1)]

applySystemPrompt(messages, systemPrompt) ==
    IF ~Truthy(systemPrompt) THEN messages
    ELSE IF hasSystemRole(messages) THEN messages
    ELSE <<[role |-> "system", content |-> Val(systemPrompt)]>> \o messages

\* One element of sanitizedMessages
SanitizeMessage(message) ==
    [role    |-> Nullish(message.role, "user"),
     content |-> Slice0(Nullish(message.content, ""), MaxContent)]

\* payload.messages.map(...)
Sanitize(messages) ==
    [i \in 1..Len(messages) |-> SanitizeMessage(messages[i])]

\* process.env.AI_FOUNDRY_SYSTEM_PROMPT?.trim()
SystemPromptOf(e) ==
    IF IsSome(e.AI_FOUNDRY_SYSTEM_PROMPT)
    THEN Some(Trim(Val(e.AI_FOUNDRY_SYSTEM_PROMPT)))
    ELSE None

\* Mutant of MessagesMissing: !payload.messages, an empty list passes.
MessagesMissing_AbsentOnly(payload) == ~IsSome(payload.messages)

\* !payload.messages?.length
MessagesMissing(payload) == Len(Nullish(payload.messages, <<>>)) = 0

\* NextResponse.json(...)
JsonResponse(status, json) == [status |-> status, body |-> json]

ErrorBody(text) == [error |-> text]

\* Mutant of UpstreamFailure: the failure is answered as an internal error
\* with a fixed text.
UpstreamFailure_Generic(message) ==
    JsonResponse(500, ErrorBody("Internal Server Error"))

\* The catch of POST: 502 with the message of the thrown Error
UpstreamFailure(message) == JsonResponse(502, ErrorBody(message))

\* The observability calls that may raise: span.addEvent of the start event
\* (line 60), emitGenAiSpan in the loop over the prepared turns (line 114),
\* emitGenAiSpan of the completion (line 139) and of the error placeholder
\* (line 179).
Faults ==
    {"none", "request_start", "prompt_span", "completion_span", "error_span"}

\* The message of the Error an observability call raises with.
TelemetryError == "telemetry unavailable"

\* span.addEvent(name), span.recordException (an event named exception) and
\* span.end
SpanEvent(name) ==
    [name |-> name, role |-> "", index |-> -1, status |-> "", error |-> FALSE]

\* span.addEvent('chat.request.end', {status})
EndEvent(status) ==
    [name |-> "chat.request.end", role |-> "", index |-> -1,
     status |-> status, error |-> FALSE]

\* emitGenAiSpan(`gen_ai.${role}.message`, ..., role, extra): a child span
\* and an event on the request span, tagged with the role and, for a prepared
\* turn, its index.
MessageSpan(role, index, error) ==
    [name |-> "gen_ai." \o role \o ".message", role |-> role,
     index |-> index, status |-> "", error |-> error]

\* Mutant of PromptSpans: every turn is recorded with index 0.
PromptSpans_IndexZero(messages) ==
    [i \in 1..Len(messages) |->
        MessageSpan(IF messages[i].role = "" THEN "user" ELSE messages[i].role,
                    0, FALSE)]

\* The loop over preparedMessages.entries(): role = m.role || 'user'
PromptSpans(messages) ==
    [i \in 1..Len(messages) |->
        MessageSpan(IF messages[i].role = "" THEN "user" ELSE messages[i].role,
                    i - 1, FALSE)]

\* String.prototype.toLowerCase, on the letters A to Z
RECURSIVE LowerOf(_, _, _)
LowerOf(c, upper, lower) ==
    IF upper = "" THEN c
    ELSE IF SubSeq(upper, 1, 1) = c THEN SubSeq(lower, 1, 1)
    ELSE LowerOf(c, Tail(upper), Tail(lower))

RECURSIVE toLowerCase(_)
toLowerCase(s) ==
    IF s = "" THEN ""
    ELSE LowerOf(SubSeq(s, 1, 1), "ABCDEFGHIJKLMNOPQRSTUVWXYZ",
                 "abcdefghijklmnopqrstuvwxyz")
         \o toLowerCase(Tail(s))

\* String(process.env.LOG_VERBOSE ?? "").toLowerCase() === "true"
isVerboseLoggingEnabled(e) == toLowerCase(Nullish(e.LOG_VERBOSE, "")) = "true"

\* A console call: its text and the exception object passed to it: "none",
\* "parse" (what request.json() rejected with), "upstream" (what a client
\* caught around its provider call), "client" (the Error a client threw to
\* POST) or "telemetry" (what an observability call raised).
Log(text, exception) == [text |-> text, exception |-> exception]

When(condition, entries) == IF condition THEN entries ELSE <<>>

\* parseOptionalNumber warns of a text that is no number.
NumberLogs(value) ==
    When(value # None /\ value # Some("") /\ Number(Nullish(value, "")).nan,
         <<Log("[aiFoundry] Ignoring invalid numeric environment value", "none")>>)

\* The console calls of POST and of the chosen client from the accepted
\* payload to the return of the simulated reply or the provider call.
DispatchLogs(e, started) ==
    LET verbose == isVerboseLoggingEnabled(e)
    IN  When(verbose, <<Log("[api/chat] Received request", "none")>>)
        \o (IF ~started.call
            THEN When(verbose,
                      <<Log(IF started.mode = "agent"
                            THEN "[aiFoundry][agent] Missing agent configuration. Falling back to simulated response."
                            ELSE "[aiFoundry] Missing configuration. Falling back to simulated response.",
                            "none")>>)
            ELSE IF started.mode = "agent"
            THEN When(verbose,
                      <<Log("[aiFoundry][agent] Sending agent invocation", "none")>>)
            ELSE When(verbose,
                      <<Log("[aiFoundry] Sending chat request", "none")>>)
                 \o NumberLogs(e.AI_FOUNDRY_TEMPERATURE)
                 \o NumberLogs(e.AI_FOUNDRY_TOP_P))

\* The console calls of a client from the settling of its provider call to
\* its return or throw; `settled` is how the client settles on `reply`.
SettleLogs(e, m, reply, settled) ==
    LET verbose == isVerboseLoggingEnabled(e)
    IN  IF m = "agent"
        THEN When(verbose /\ reply.kind = "ok",
                  <<Log("[aiFoundry][agent] Raw response payload", "none")>>)
             \o When(verbose,
                     <<IF settled.ok
                       THEN Log("[aiFoundry][agent] Parsed assistant text", "none")
                       ELSE Log("[aiFoundry][agent] Invocation failed", "upstream")>>)
        ELSE When(verbose /\ reply.kind = "ok" /\ ~settled.ok,
                  <<Log("[aiFoundry] Empty response payload", "none")>>)
             \o When(verbose,
                     <<IF settled.ok
                       THEN Log("[aiFoundry] Received response", "none")
                       ELSE Log("[aiFoundry] Request failed", "upstream")>>)

\* The console calls of POST from the settling of completeChatAuto to its
\* end: the catch writes the caught Error whatever the verbosity.
ConcludeLogs(e, settled) ==
    LET verbose == isVerboseLoggingEnabled(e)
        spans   == When(verbose /\ settled.ok /\ fault = "prompt_span",
                        <<Log("[api/chat] Failed to emit prompt spans", "telemetry")>>)
    IN  IF settled.ok /\ fault # "completion_span"
        THEN spans \o When(verbose, <<Log("[api/chat] Returning response", "none")>>)
        ELSE spans
             \o <<Log("AI Foundry chat failure",
                      IF settled.ok THEN "telemetry" ELSE "client")>>
             \o When(verbose /\ fault # "error_span",
                     <<Log("[api/chat] Upstream error", "none")>>)

\* The ChatPanel as mounted: the welcome message, nothing typed, nothing
\* sent; the clock stands at `now`.
initialMessages ==
    << [id |-> "assistant-welcome", role |-> "assistant",
        content |-> "Hi there!", status |-> None] >>

MountedPanel ==
    [messages |-> initialMessages, input |-> "", isSending |-> FALSE,
     panelError |-> None, now |-> 1, sent |-> <<>>]

\* A request POST has not been invoked for yet.
IdleRequest ==
    [pc |-> "idle", body |-> [kind |-> "none", messages |-> None],
     outbound |-> <<>>, mode |-> "none", upstream |-> NoReply,
     response |-> NoResponse]

\* Requests the process handles at the same time.
NumRequests == 2

Reqs == 1..NumRequests

Init ==
    /\ env \in Envs
    /\ pc = "idle"
    /\ body = [kind |-> "none", messages |-> None]
    /\ sanitized = <<>>
    /\ prepared = <<>>
    /\ mode = "none"
    /\ fallback = FALSE
    /\ outbound = <<>>
    /\ upstream = NoReply
    /\ response = NoResponse
    /\ events = <<>>
    /\ fault = "none"
    /\ reqs = [r \in Reqs |-> IdleRequest]
    /\ logs = <<>>
    /\ ui = MountedPanel

\* POST is invoked: the start event is put on the span and POST suspends on
\* request.json().  When that addEvent raises, POST throws.
PostBegin ==
    /\ pc = "idle"
    /\ \E b \in Bodies : body' = b
    /\ IF fault = "request_start"
       THEN /\ pc' = "failed"
            /\ UNCHANGED events
       ELSE /\ pc' = "parsing"
            /\ events' = <<SpanEvent("chat.request.start")>>
    /\ UNCHANGED <<env, sanitized, prepared, mode, fallback, outbound,
                   upstream, response, fault, reqs, logs, ui>>

\* request.json() rejects: 400.
PostInvalidJson ==
    /\ pc = "parsing"
    /\ body.kind = "invalid_json"
    /\ response' = JsonResponse(400, ErrorBody("Invalid JSON payload"))
    /\ events' = events \o <<SpanEvent("exception"), SpanEvent("span.end")>>
    /\ logs' = logs \o When(isVerboseLoggingEnabled(env),
                             <<Log("[api/chat] Failed to parse JSON", "parse")>>)
    /\ pc' = "done"
    /\ UNCHANGED <<env, body, sanitized, prepared, mode, fallback, outbound,
                   upstream, fault, reqs, ui>>

\* The payload is null: payload.messages raises a TypeError outside any try,
\* and POST ends without returning a response.
PostTypeError ==
    /\ pc = "parsing"
    /\ body.kind = "null"
    /\ pc' = "failed"
    /\ UNCHANGED <<env, body, sanitized, prepared, mode, fallback, outbound,
                   upstream, response, events, fault, reqs, logs, ui>>

\* !payload.messages?.length: 400.
PostMissingMessages ==
    /\ pc = "parsing"
    /\ body.kind = "object"
    /\ MessagesMissing(body)
    /\ response' = JsonResponse(400, ErrorBody("Missing chat messages"))
    /\ events' = events \o <<SpanEvent("span.end")>>
    /\ logs' = logs \o When(isVerboseLoggingEnabled(env),
                             <<Log("[api/chat] Request missing messages array", "none")>>)
    /\ pc' = "done"
    /\ UNCHANGED <<env, body, sanitized, prepared, mode, fallback, outbound,
                   upstream, fault, reqs, ui>>

\* Mutant of Respond: a failed call is answered with the simulated reply.
Respond_FallbackOnFailure(settled) ==
    IF settled.ok
    THEN JsonResponse(200, settled.result)
    ELSE JsonResponse(200, DirectFallbackResult(<<>>))

\* The settling of a provider client's call, and POST's try/catch around it.
Respond(settled) ==
    IF settled.ok
    THEN JsonResponse(200, settled.result)
    ELSE UpstreamFailure(settled.message)

\* POST from the settling of completeChatAuto to its end (lines 109-194),
\* given the records `evs` already on the span.  On a result: the spans of
\* the prepared turns (a raise there is swallowed), the completion span, the
\* end event, the end of the span, 200.  On a throw, of the client or of the
\* completion span: the exception, the error placeholder span, the end event,
\* the end of the span, 502; when the placeholder span raises, POST throws.
Conclude(settled, messages, evs) ==
    LET promptSpans ==
            IF fault = "prompt_span" THEN <<>> ELSE PromptSpans(messages)
    IN  IF settled.ok /\ fault # "completion_span"
        THEN [pc       |-> "done",
              response |-> Respond(settled),
              events   |-> evs \o promptSpans
                           \o <<MessageSpan("assistant", -1, FALSE),
                                EndEvent("OK"), SpanEvent("span.end")>>]
        ELSE LET caught == IF settled.ok THEN Thrown(TelemetryError)
                           ELSE settled
                 seen   == evs \o (IF settled.ok THEN promptSpans ELSE <<>>)
                           \o <<SpanEvent("exception")>>
             IN  IF fault = "error_span"
                 THEN [pc |-> "failed", response |-> NoResponse,
                       events |-> seen]
                 ELSE [pc       |-> "done",
                       response |-> Respond(caught),
                       events   |-> seen
                                    \o <<MessageSpan("assistant", -1, TRUE),
                                         EndEvent("ERROR"),
                                         SpanEvent("span.end")>>]

\* The payload is accepted: sanitize, apply the system prompt, dispatch.  The
\* chosen client either returns the simulated reply, with which POST runs to
\* its end, or issues its outbound call, on which POST suspends.
PostDispatch ==
    /\ pc = "parsing"
    /\ body.kind = "object"
    /\ ~MessagesMissing(body)
    /\ LET sanitizedMessages == Sanitize(Val(body.messages))
           preparedMessages  ==
               applySystemPrompt(sanitizedMessages, SystemPromptOf(env))
           started == completeChatAuto(env, preparedMessages)
           ending  == Conclude(Resolved(started.result), preparedMessages,
                               events)
       IN  /\ sanitized' = sanitizedMessages
           /\ prepared' = preparedMessages
           /\ mode' = started.mode
           /\ fallback' = ~started.call
           /\ outbound' = started.request
           /\ IF started.call
              THEN /\ pc' = "awaiting"
                   /\ logs' = logs \o DispatchLogs(env, started)
                   /\ UNCHANGED <<response, events>>
              ELSE /\ pc' = ending.pc
                   /\ response' = ending.response
                   /\ events' = ending.events
                   /\ logs' = logs \o DispatchLogs(env, started)
                              \o ConcludeLogs(env, Resolved(started.result))
    /\ UNCHANGED <<env, body, upstream, fault, reqs, ui>>

\* The chat completions call settles.
DirectReplyArrives ==
    /\ pc = "awaiting"
    /\ mode = "direct"
    /\ \E reply \in DirectReplies :
          LET settled == DirectSettle(reply)
              ending  == Conclude(settled, prepared, events)
          IN  /\ upstream' = reply
              /\ pc' = ending.pc
              /\ response' = ending.response
              /\ events' = ending.events
              /\ logs' = logs \o SettleLogs(env, mode, reply, settled)
                         \o ConcludeLogs(env, settled)
    /\ UNCHANGED <<env, body, sanitized, prepared, mode, fallback, outbound,
                   fault, reqs, ui>>

\* The agent call settles.
AgentReplyArrives ==
    /\ pc = "awaiting"
    /\ mode = "agent"
    /\ \E reply \in AgentReplies :
          LET settled == AgentSettle(reply)
              ending  == Conclude(settled, prepared, events)
          IN  /\ upstream' = reply
              /\ pc' = ending.pc
              /\ response' = ending.response
              /\ events' = ending.events
              /\ logs' = logs \o SettleLogs(env, mode, reply, settled)
                         \o ConcludeLogs(env, settled)
    /\ UNCHANGED <<env, body, sanitized, prepared, mode, fallback, outbound,
                   fault, reqs, ui>>

\* The configuration changes between two requests.
ConfigChange ==
    /\ pc = "idle"
    /\ env' \in Envs
    /\ UNCHANGED <<pc, body, sanitized, prepared, mode, fallback, outbound,
                   upstream, response, events, fault, reqs, logs, ui>>

\* The request is over; the process serves the next one.
NextRequest ==
    /\ pc \in {"done", "failed"}
    /\ UNCHANGED <<env, fault, reqs, ui>>
    /\ logs' = <<>>
    /\ pc' = "idle"
    /\ body' = [kind |-> "none", messages |-> None]
    /\ sanitized' = <<>>
    /\ prepared' = <<>>
    /\ mode' = "none"
    /\ fallback' = FALSE
    /\ outbound' = <<>>
    /\ upstream' = NoReply
    /\ response' = NoResponse
    /\ events' = <<>>

Next ==
    \/ PostBegin
    \/ PostInvalidJson
    \/ PostTypeError
    \/ PostMissingMessages
    \/ PostDispatch
    \/ DirectReplyArrives
    \/ AgentReplyArrives
    \/ NextRequest
    \/ ConfigChange

Spec == Init /\ [][Next]_vars

----------------------------------------------------------------------------
(* Properties *)

\* The request carries a JSON object with a non-empty message list.
ValidRequest ==
    /\ body.kind = "object"
    /\ IsSome(body.messages)
    /\ Len(Val(body.messages)) > 0

\* POST has gone past the parsing of the body.
Parsed == pc \in {"awaiting", "done", "failed"}

\* The request has passed validation and reached the dispatcher.
Dispatched == Parsed /\ ValidRequest

\* The body is not JSON, or a JSON object whose message list is absent or
\* empty.
InvalidRequest ==
    \/ body.kind = "invalid_json"
    \/ /\ body.kind = "object"
       /\ body.messages \in {None, Some(<<>>)}

\* An agent identifier is configured: the variable is set and not empty.
AgentIdConfigured ==
    /\ env.AI_FOUNDRY_AGENT_ID # None
    /\ env.AI_FOUNDRY_AGENT_ID # Some("")

\* C1: for every non-empty conversation and every configuration, the
\* dispatcher invokes Agent Mode if and only if an agent identifier is
\* configured and Direct Mode otherwise, also when a deployment is
\* configured too; before dispatch no client is invoked.
C1_DispatchByAgentId ==
    /\ Dispatched => mode = IF AgentIdConfigured THEN "agent" ELSE "direct"
    /\ ~Dispatched => mode = "none"

\* C1 witness: agent id and deployment both configured, agent mode chosen
\* and its outbound call made.
C1_Witness ==
    /\ pc = "awaiting"
    /\ mode = "agent"
    /\ env.AI_FOUNDRY_CHAT_DEPLOYMENT = Some("gpt-4o")
    /\ env.AI_FOUNDRY_AGENT_ID = Some("agent-7")
    /\ Len(outbound) = 1
    /\ outbound[1].api = "agents.responses"

Settled ==
    IF mode = "agent" THEN AgentSettle(upstream) ELSE DirectSettle(upstream)

\* The provider answered the outbound call.
Answered == pc = "done" /\ upstream.kind # "none"

\* C3: whenever the selected provider client fails (a rejected call, a
\* non-success status, or an empty parsed output), the response is 502 with
\* a body of exactly {error: text}, the text being the failure's message.
C3_ProviderFailureIs502 ==
    (Answered /\ (upstream.kind # "ok" \/ ~Settled.ok)) =>
        /\ ~Settled.ok
        /\ response.status = 502
        /\ DOMAIN response.body = {"error"}
        /\ response.body.error = Settled.message
        /\ response.body.error # ""

\* C3 witness: the agent endpoint answered 500 and the broker 502.
C3_Witness ==
    /\ Answered
    /\ mode = "agent"
    /\ upstream.kind = "http_error"
    /\ response.status = 502


\* The completion text the provider returned, as the client reads it:
\* the first choice's content, or the assistant segments joined.
UpstreamText ==
    IF mode = "agent"
    THEN Join(OutputSegments(Nullish(upstream.data.output, <<>>)), "\n\n")
    ELSE Nullish(upstream.content, "")

\* C4: a successful completion whose text is empty or only whitespace is
\* answered 502 with an error, never 200.
C4_EmptyCompletionIs502 ==
    (Answered /\ upstream.kind = "ok" /\ Trim(UpstreamText) = "") =>
        /\ response.status = 502
        /\ DOMAIN response.body = {"error"}

\* C4 witness: Direct Mode received a whitespace-only completion.
C4_Witness ==
    /\ Answered
    /\ mode = "direct"
    /\ upstream.kind = "ok"
    /\ upstream.content = Some(" \n ")
    /\ response.status = 502

\* C5: every 200 response has non-empty content.
C5_SuccessHasContent ==
    response.status = 200 =>
        /\ "content" \in DOMAIN response.body
        /\ response.body.content # ""

\* C5 witness: Agent Mode returned 200 with the parsed assistant text.
C5_Witness ==
    /\ Answered
    /\ mode = "agent"
    /\ response.status = 200
    /\ response.body.content = "Hi\n\nthere"

\* The configuration the selected mode requires is incomplete: endpoint or
\* key is missing, or Direct Mode is selected (no agent id) and no deployment
\* is named.  Agent Mode is selected only when its identifier is present.
ConfigIncomplete ==
    LET missing(v) == v = None \/ v = Some("")
    IN  \/ missing(env.AI_FOUNDRY_ENDPOINT)
        \/ missing(env.AI_FOUNDRY_API_KEY)
        \/ /\ ~AgentIdConfigured
           /\ missing(env.AI_FOUNDRY_CHAT_DEPLOYMENT)
           /\ missing(env.AI_FOUNDRY_DEPLOYMENT)

\* The turns of the conversation with role user.
UserTurns == {i \in 1..Len(prepared) : prepared[i].role = "user"}

\* C6: when the configuration of the selected mode is incomplete, the result
\* has a non-empty warnings list and its content contains, verbatim, the
\* content of the last turn with role user, when there is one.
C6_FallbackEchoesLatestUser ==
    (Dispatched /\ ConfigIncomplete) =>
        /\ pc = "done"
        /\ fallback
        /\ response.body.warnings # None
        /\ Len(Val(response.body.warnings)) > 0
        /\ \A i \in UserTurns :
              (\A j \in UserTurns : j <= i) =>
                  Contains(response.body.content, prepared[i].content)

\* C6 witness: a simulated reply to a conversation with two user turns of
\* different content.
C6_Witness ==
    /\ pc = "done"
    /\ fallback
    /\ Len(prepared) >= 2
    /\ \E i, j \in UserTurns :
          /\ i < j
          /\ prepared[i].content # prepared[j].content
          /\ prepared[j].content # ""

\* C7: a valid non-empty request made while the configuration is incomplete
\* ends in a 200 carrying the simulated reply: it never waits on a provider
\* and never ends in an error.
C7_FallbackNeverFails ==
    (Dispatched /\ ConfigIncomplete) =>
        /\ pc = "done"
        /\ outbound = <<>>
        /\ response.status = 200
        /\ StartsWith(response.body.content, "WARNING: ")

\* C7 witness: only the key is missing, and the request ended in 200.
C7_Witness ==
    /\ pc = "done"
    /\ ValidRequest
    /\ env.AI_FOUNDRY_ENDPOINT # None
    /\ env.AI_FOUNDRY_CHAT_DEPLOYMENT # None
    /\ env.AI_FOUNDRY_AGENT_ID = None
    /\ env.AI_FOUNDRY_API_KEY = None
    /\ response.status = 200

\* No provider variable is set.
NoProviderConfig ==
    /\ env.AI_FOUNDRY_ENDPOINT = None
    /\ env.AI_FOUNDRY_API_KEY = None
    /\ env.AI_FOUNDRY_CHAT_DEPLOYMENT = None
    /\ env.AI_FOUNDRY_DEPLOYMENT = None
    /\ env.AI_FOUNDRY_AGENT_ID = None

\* C8: with no provider configuration, a request of one user turn returns
\* 200, its content starts with "WARNING:" and its warnings are exactly one
\* string, which names the three direct-mode variables.
C8_ZeroConfigScenario ==
    ( /\ pc = "done"
      /\ NoProviderConfig
      /\ body.kind = "object"
      /\ body.messages = Some(<<[role |-> Some("user"), content |-> Some("Hello")]>>) )
    =>
        /\ response.status = 200
        /\ StartsWith(response.body.content, "WARNING:")
        /\ response.body.warnings # None
        /\ Len(Val(response.body.warnings)) = 1
        /\ \A name \in {"AI_FOUNDRY_ENDPOINT", "AI_FOUNDRY_API_KEY",
                        "AI_FOUNDRY_CHAT_DEPLOYMENT"} :
              Contains(Val(response.body.warnings)[1], name)

\* C8 witness: that request, answered.
C8_Witness ==
    /\ pc = "done"
    /\ NoProviderConfig
    /\ body.messages = Some(<<[role |-> Some("user"), content |-> Some("Hello")]>>)
    /\ response.status = 200
    /\ Contains(response.body.content, "\"Hello\"")

\* The conversation an outbound call carries.
SentUpstream ==
    IF outbound[1].api = "agents.responses"
    THEN outbound[1].input ELSE outbound[1].messages

\* Some normalized turn has role system.
HasSystemTurn == \E i \in 1..Len(sanitized) : sanitized[i].role = "system"

\* The conversation that leaves the normalizer when the instruction text
\* `instruction` is injected, or not, into the normalized turns.
Injected(inject, instruction) ==
    IF inject
    THEN <<[role |-> "system", content |-> instruction]>> \o sanitized
    ELSE sanitized

\* A default instruction is configured: the variable is set and not blank.
InstructionConfigured ==
    /\ env.AI_FOUNDRY_SYSTEM_PROMPT # None
    /\ Trim(Val(env.AI_FOUNDRY_SYSTEM_PROMPT)) # ""

\* C9 as stated: if a default instruction is configured and no normalized
\* turn has role system, the conversation starts with a system turn whose
\* content is exactly the configured text, followed by the original turns;
\* otherwise it is unchanged.
C9_Original ==
    Dispatched =>
        prepared = Injected(InstructionConfigured /\ ~HasSystemTurn,
                            Nullish(env.AI_FOUNDRY_SYSTEM_PROMPT, ""))

\* The configured instruction as the broker reads it: trimmed of surrounding
\* whitespace.
TrimmedInstruction == Trim(Nullish(env.AI_FOUNDRY_SYSTEM_PROMPT, ""))

\* C9 amended: the instruction is the configured text trimmed of surrounding
\* whitespace, and counts as configured when it is not empty after trimming.
\* If it is configured and no normalized turn has role system, the
\* conversation handed to the dispatcher, and sent upstream when a call is
\* made, is one system turn with exactly that instruction followed by the
\* original turns; otherwise it is the original turns.  Applying the
\* injection to the result changes nothing.
C9_SystemPromptInjection ==
    Dispatched =>
        /\ prepared = Injected(TrimmedInstruction # "" /\ ~HasSystemTurn,
                               TrimmedInstruction)
        /\ Len(outbound) > 0 => SentUpstream = prepared
        /\ applySystemPrompt(prepared, SystemPromptOf(env)) = prepared

\* C9 witness: a padded instruction was injected, trimmed, ahead of the
\* turns of a call.
C9_Witness ==
    /\ pc = "awaiting"
    /\ env.AI_FOUNDRY_SYSTEM_PROMPT = Some(" Be brief. ")
    /\ Len(prepared) = Len(sanitized) + 1
    /\ prepared[1] = [role |-> "system", content |-> "Be brief."]
    /\ SentUpstream[1] = [role |-> "system", content |-> "Be brief."]

\* C10: every inbound turn whose content is longer than 6000 characters is
\* normalized to exactly its first 6000 characters, and content of at most
\* 6000 characters is left unchanged.
C10_Truncation ==
    Dispatched =>
        /\ Len(sanitized) = Len(Val(body.messages))
        /\ \A i \in 1..Len(sanitized) :
              LET given == Nullish(Val(body.messages)[i].content, "")
                  kept  == sanitized[i].content
              IN  IF Len(given) > 6000
                  THEN Len(kept) = 6000 /\ StartsWith(given, kept)
                  ELSE kept = given

\* C10 witness: a turn of 6001 characters and a turn of exactly 6000 were
\* normalized.
C10_Witness ==
    /\ Dispatched
    /\ \E i, j \in 1..Len(sanitized) :
          /\ Len(Nullish(Val(body.messages)[i].content, "")) = 6001
          /\ Len(sanitized[i].content) = 6000
          /\ Len(Nullish(Val(body.messages)[j].content, "")) = 6000

\* The content of every turn of `messages` is within the limit.
WithinLimit(messages) ==
    \A i \in 1..Len(messages) : Len(messages[i].content) <= MaxContent

\* C11: every turn that leaves the broker, handed to the dispatcher and sent
\* upstream, the system turn injected from the configured default
\* instruction included, has content of at most 6000 characters.
C11_ContentBounded ==
    Dispatched =>
        /\ WithinLimit(prepared)
        /\ Len(outbound) > 0 => WithinLimit(SentUpstream)

\* C11 failing state: a default instruction of 6001 characters was injected
\* whole as the system turn of an outbound call.
C11_Witness ==
    /\ pc = "awaiting"
    /\ env.AI_FOUNDRY_SYSTEM_PROMPT = Some(LongText)
    /\ SentUpstream[1].role = "system"
    /\ Len(SentUpstream[1].content) = MaxContent + 1
    /\ \A i \in 2..Len(SentUpstream) : Len(SentUpstream[i].content) <= MaxContent

\* POST has ended: it returned a response or threw.
Ended == pc \in {"done", "failed"}

\* The response is one of the three the broker defines:
\* 200 {content, warnings?, usage?}, 400 {error} or 502 {error}.
BrokerResponse ==
    \/ /\ response.status = 200
       /\ DOMAIN response.body = {"content", "warnings", "usage"}
    \/ /\ response.status \in {400, 502}
       /\ DOMAIN response.body = {"error"}

\* C12: for every inbound payload, however malformed, the request ends in
\* exactly one response, 200 {content, warnings?, usage?}, 400 {error} or
\* 502 {error}: no request ends without one, none is produced before the
\* request ends, and at most one provider call is made for it.
C12_ExactlyOneResponse ==
    /\ Ended => BrokerResponse
    /\ ~Ended => response = NoResponse
    /\ Len(outbound) <= 1

\* C12 failing state: the body was the JSON value null and POST ended
\* without a response.
C12_Witness ==
    /\ pc = "failed"
    /\ body.kind = "null"
    /\ response = NoResponse
    /\ outbound = <<>>

\* Some record on the request span satisfies `test`.
Emitted(test(_)) == \E k \in 1..Len(events) : test(events[k])

\* The request was answered: POST returned a response.
Responded == pc = "done"

\* C13: on every branch (invalid JSON, missing messages, fallback, provider
\* success, provider failure) the broker emits a start event, one record per
\* normalized turn tagged with its role and position, a completion or error
\* record, and an end event.
C13_TraceOnEveryBranch ==
    Responded =>
        /\ Emitted(LAMBDA ev : ev.name = "chat.request.start")
        /\ \A i \in 1..Len(prepared) :
              Emitted(LAMBDA ev : ev.role = prepared[i].role /\ ev.index = i - 1)
        /\ Emitted(LAMBDA ev : ev.name \in {"gen_ai.assistant.message",
                                            "exception"})
        /\ Emitted(LAMBDA ev : ev.name = "chat.request.end")

\* C13 failing state: the provider failed and the request was answered 502
\* with no record of its turns on the span.
C13_Witness ==
    /\ Responded
    /\ response.status = 502
    /\ Len(prepared) > 0
    /\ ~Emitted(LAMBDA ev : ev.index >= 0)
    /\ Emitted(LAMBDA ev : ev.name = "chat.request.end" /\ ev.status = "ERROR")

\* The process starts with one of the observability calls raising, or none.
InitFaults ==
    /\ env \in Envs
    /\ pc = "idle"
    /\ body = [kind |-> "none", messages |-> None]
    /\ sanitized = <<>>
    /\ prepared = <<>>
    /\ mode = "none"
    /\ fallback = FALSE
    /\ outbound = <<>>
    /\ upstream = NoReply
    /\ response = NoResponse
    /\ events = <<>>
    /\ fault \in Faults
    /\ reqs = [r \in Reqs |-> IdleRequest]
    /\ logs = <<>>
    /\ ui = MountedPanel

\* The broker with an observability call that raises.
SpecFaults == InitFaults /\ [][Next]_vars

\* The response of the request when every observability call succeeds.
Undisturbed ==
    IF body.kind = "invalid_json"
    THEN JsonResponse(400, ErrorBody("Invalid JSON payload"))
    ELSE IF MessagesMissing(body)
    THEN JsonResponse(400, ErrorBody("Missing chat messages"))
    ELSE LET started ==
                 completeChatAuto(env,
                     applySystemPrompt(Sanitize(Val(body.messages)),
                                       SystemPromptOf(env)))
         IN  IF started.call
             THEN Respond(IF started.mode = "agent"
                          THEN AgentSettle(upstream)
                          ELSE DirectSettle(upstream))
             ELSE JsonResponse(200, started.result)

\* C14: observability is advisory: whichever observability call raises, the
\* error is swallowed, and the request ends in the response it has when the
\* call succeeds.
C14_ObservabilityAdvisory ==
    (Ended /\ body.kind # "null") =>
        /\ pc = "done"
        /\ response = Undisturbed

\* C14 failing state: the provider answered with a completion, the span of
\* the completion raised, and the request was answered 502 with the message
\* of that error.
C14_Witness ==
    /\ fault = "completion_span"
    /\ Answered
    /\ Settled.ok
    /\ response = JsonResponse(502, ErrorBody(TelemetryError))

DirectUsageReturned ==
    /\ Answered
    /\ mode = "direct"
    /\ upstream.kind = "ok"
    /\ response.status = 200
    /\ IsSome(upstream.usage)

\* C16: in Direct Mode, on success with upstream usage present, the usage of
\* the result carries the upstream prompt and completion counters, and its
\* total_tokens is their sum when the upstream supplies no total.
C16_DirectUsageTotal ==
    DirectUsageReturned =>
        /\ IsSome(response.body.usage)
        /\ LET given == Val(upstream.usage)
               usage == Val(response.body.usage)
           IN  /\ usage.prompt_tokens = given.prompt_tokens
               /\ usage.completion_tokens = given.completion_tokens
               /\ given.total_tokens = None =>
                     usage.total_tokens =
                        Some(OrZero(given.prompt_tokens)
                             + OrZero(given.completion_tokens))

\* C16 witness: prompt 5 and completion 2 without a total gave total 7.
C16_Witness ==
    /\ DirectUsageReturned
    /\ upstream.usage = Some([prompt_tokens |-> Some(5),
                              completion_tokens |-> Some(2),
                              total_tokens |-> None])
    /\ Val(response.body.usage).total_tokens = Some(7)

\* Agent Mode returned a result for a response that carried usage.
AgentUsageReturned ==
    /\ Answered
    /\ mode = "agent"
    /\ upstream.kind = "ok"
    /\ response.status = 200
    /\ IsSome(upstream.data.usage)

\* A counter supplied under its canonical name or, failing that, its legacy
\* name.
Supplied(canonical, legacy) == IF IsSome(canonical) THEN canonical ELSE legacy

\* C17: in Agent Mode usage is accepted under either naming (legacy
\* input_tokens/output_tokens or canonical prompt_tokens/completion_tokens);
\* when the upstream supplies no total_tokens the total of the result is the
\* sum of the two supplied counters, whichever naming they arrived under,
\* and a supplied total_tokens is passed through.
C17_AgentUsageTotal ==
    AgentUsageReturned =>
        /\ IsSome(response.body.usage)
        /\ LET given  == Val(upstream.data.usage)
               usage  == Val(response.body.usage)
               input  == Supplied(given.prompt_tokens, given.input_tokens)
               output == Supplied(given.completion_tokens, given.output_tokens)
           IN  /\ usage.input_tokens = input
               /\ usage.output_tokens = output
               /\ usage.total_tokens =
                     IF IsSome(given.total_tokens) THEN given.total_tokens
                     ELSE Some(OrZero(input) + OrZero(output))

\* C17 failing state: input_tokens 5 and output_tokens 2 arrived without a
\* total, and the total of the result is 0.
C17_Witness ==
    /\ AgentUsageReturned
    /\ Val(upstream.data.usage).input_tokens = Some(5)
    /\ Val(upstream.data.usage).output_tokens = Some(2)
    /\ Val(upstream.data.usage).total_tokens = None
    /\ Val(response.body.usage).input_tokens = Some(5)
    /\ Val(response.body.usage).output_tokens = Some(2)
    /\ Val(response.body.usage).total_tokens = Some(0)

\* The request made an outbound call to the agent endpoint.
AgentCalled ==
    /\ Dispatched
    /\ mode = "agent"
    /\ Len(outbound) = 1

\* C18: in Agent Mode the instructions of the agent are owned server-side:
\* the request to the agent carries no system turn, neither one synthesized
\* from the configured default instruction nor one forwarded from the
\* conversation.
C18_NoSystemTurnToAgent ==
    AgentCalled =>
        \A i \in 1..Len(outbound[1].input) :
            outbound[1].input[i].role # "system"

\* C18 failing state: no inbound turn has role system, a default instruction
\* is configured, and the input of the agent request starts with the system
\* turn synthesized from it.
C18_Witness ==
    /\ AgentCalled
    /\ ~HasSystemTurn
    /\ env.AI_FOUNDRY_SYSTEM_PROMPT = Some(" Be brief. ")
    /\ outbound[1].api = "agents.responses"
    /\ outbound[1].input[1] = [role |-> "system", content |-> "Be brief."]

\* The roles of a chat turn: AzureChatMessage.role.
ChatRoles == {"system", "user", "assistant"}

\* C19: for every inbound list, each turn handed to the dispatcher has a
\* role in {system, user, assistant}, user when the inbound turn named none,
\* and a text content, empty when the inbound turn had none.
C19_ValidatedConversation ==
    Dispatched =>
        \A i \in 1..Len(sanitized) :
            LET given == Val(body.messages)[i]
            IN  /\ sanitized[i].role \in ChatRoles
                /\ given.role = None => sanitized[i].role = "user"
                /\ given.content = None => sanitized[i].content = ""

\* C19 failing state: an inbound turn with role tool was handed to the
\* dispatcher, and sent upstream, with that role.
C19_Witness ==
    /\ pc = "awaiting"
    /\ \E i \in 1..Len(SentUpstream) : SentUpstream[i].role = "tool"

----------------------------------------------------------------------------
(* POST handling several requests at once *)

\* The configurations of the concurrent runs: nothing configured, Direct
\* Mode, Direct Mode tuned, Agent Mode with a default instruction.
ConcurrentEnvs ==
    { [DirectEnv EXCEPT !.AI_FOUNDRY_ENDPOINT = None,
                        !.AI_FOUNDRY_API_KEY = None,
                        !.AI_FOUNDRY_CHAT_DEPLOYMENT = None],
      DirectEnv,
      [DirectEnv EXCEPT !.AI_FOUNDRY_API_VERSION = Some("2025-01-01"),
                        !.AI_FOUNDRY_TEMPERATURE = Some("0.7"),
                        !.AI_FOUNDRY_SYSTEM_PROMPT = Some("Be exact.")],
      [AgentEnv EXCEPT !.AI_FOUNDRY_SYSTEM_PROMPT = Some(" Be brief. ")] }

\* The bodies of the concurrent requests.
ConcurrentBodies ==
    { [kind |-> "invalid_json", messages |-> None],
      [kind |-> "null", messages |-> None],
      [kind |-> "object", messages |-> Some(<<>>)],
      [kind |-> "object",
       messages |-> Some(<<[role |-> Some("user"), content |-> Some("Hello")]>>)],
      [kind |-> "object",
       messages |-> Some(<<[role |-> None, content |-> Some("Status?")]>>)] }

\* What the provider answers to the call of a concurrent request.
ConcurrentReplies(m) ==
    IF m = "agent"
    THEN { [kind |-> "http_error", status |-> 500, text |-> "boom",
            statusText |-> "Internal Server Error"],
           [kind |-> "ok",
            data |-> [output |-> Some(<< [role |-> Some("assistant"),
                                          content |-> Some(<<TextItem(" Hi "),
                                                             ValueItem("there")>>)] >>),
                      usage |-> None, warnings |-> None]] }
    ELSE { [kind |-> "throws", isError |-> TRUE,
            message |-> "401 Incorrect API key provided"],
           [kind |-> "ok", content |-> Some(" Hi "), usage |-> None] }

\* POST from the settling of request.json() with `payload` to its return,
\* its throw or its suspension on the provider call.
Handle(e, payload) ==
    LET ended(status, text) ==
            [pc |-> "done", mode |-> "none", outbound |-> <<>>,
             response |-> JsonResponse(status, ErrorBody(text))]
    IN  CASE payload.kind = "invalid_json" -> ended(400, "Invalid JSON payload")
          [] payload.kind = "null" ->
                [pc |-> "failed", mode |-> "none", outbound |-> <<>>,
                 response |-> NoResponse]
          [] payload.kind = "object" /\ MessagesMissing(payload) ->
                ended(400, "Missing chat messages")
          [] OTHER ->
                LET started ==
                        completeChatAuto(e,
                            applySystemPrompt(Sanitize(Val(payload.messages)),
                                              SystemPromptOf(e)))
                IN  IF started.call
                    THEN [pc |-> "awaiting", mode |-> started.mode,
                          outbound |-> started.request,
                          response |-> NoResponse]
                    ELSE [pc |-> "done", mode |-> started.mode,
                          outbound |-> <<>>,
                          response |-> JsonResponse(200, started.result)]

\* Mutant of PayloadOf: payload is cached at module level, and every
\* invocation reads what the first request put there.
PayloadOf_ModuleLevel(rs, r) ==
    IF rs[1].pc = "idle" THEN rs[r].body ELSE rs[1].body

\* `let payload` is a local of the invocation of POST that handles request
\* r, assigned from that request's body.
PayloadOf(rs, r) == rs[r].body

InitConcurrent ==
    /\ env \in ConcurrentEnvs
    /\ pc = "idle"
    /\ body = [kind |-> "none", messages |-> None]
    /\ sanitized = <<>>
    /\ prepared = <<>>
    /\ mode = "none"
    /\ fallback = FALSE
    /\ outbound = <<>>
    /\ upstream = NoReply
    /\ response = NoResponse
    /\ events = <<>>
    /\ fault = "none"
    /\ reqs = [r \in Reqs |-> IdleRequest]
    /\ logs = <<>>
    /\ ui = MountedPanel

\* POST is invoked for request r and suspends on request.json().
ConcurrentBegin(r) ==
    /\ reqs[r].pc = "idle"
    /\ \E b \in ConcurrentBodies :
          reqs' = [reqs EXCEPT ![r].pc = "parsing", ![r].body = b]
    /\ UNCHANGED <<env, pc, body, sanitized, prepared, mode, fallback,
                   outbound, upstream, response, events, fault, logs, ui>>

\* request.json() settles for request r, and POST runs to its return, its
\* throw or the provider call.
ConcurrentParse(r) ==
    /\ reqs[r].pc = "parsing"
    /\ LET handled == Handle(env, PayloadOf(reqs, r))
       IN  reqs' = [reqs EXCEPT ![r].pc = handled.pc,
                                ![r].mode = handled.mode,
                                ![r].outbound = handled.outbound,
                                ![r].response = handled.response]
    /\ UNCHANGED <<env, pc, body, sanitized, prepared, mode, fallback,
                   outbound, upstream, response, events, fault, logs, ui>>

\* The provider call of request r settles.
ConcurrentReply(r) ==
    /\ reqs[r].pc = "awaiting"
    /\ \E reply \in ConcurrentReplies(reqs[r].mode) :
          reqs' = [reqs EXCEPT
                     ![r].pc = "done",
                     ![r].upstream = reply,
                     ![r].response =
                         Respond(IF reqs[r].mode = "agent"
                                 THEN AgentSettle(reply)
                                 ELSE DirectSettle(reply))]
    /\ UNCHANGED <<env, pc, body, sanitized, prepared, mode, fallback,
                   outbound, upstream, response, events, fault, logs, ui>>

NextConcurrent ==
    \E r \in Reqs :
        \/ ConcurrentBegin(r)
        \/ ConcurrentParse(r)
        \/ ConcurrentReply(r)

\* The requests of the process interleave at their awaits; the configuration
\* is fixed.
SpecConcurrent == InitConcurrent /\ [][NextConcurrent]_vars

\* The response of a request with body b, handled alone under configuration
\* e, the provider answering `reply` when a call is made.
ResponseAlone(e, b, reply) ==
    LET handled == Handle(e, b)
    IN  IF handled.pc = "awaiting"
        THEN Respond(IF handled.mode = "agent" THEN AgentSettle(reply)
                     ELSE DirectSettle(reply))
        ELSE handled.response

----------------------------------------------------------------------------
(* Configuration changes while requests are handled *)

\* process.env is changed, at any moment.
Reconfigure ==
    /\ env' \in ConcurrentEnvs
    /\ env' # env
    /\ UNCHANGED <<pc, body, sanitized, prepared, mode, fallback, outbound,
                   upstream, response, events, fault, reqs, logs, ui>>

NextReconfig ==
    \/ \E r \in Reqs :
          \/ ConcurrentBegin(r)
          \/ ConcurrentParse(r)
          \/ ConcurrentReply(r)
    \/ Reconfigure

\* Requests are handled while the configuration changes.
SpecReconfig == InitConcurrent /\ [][NextReconfig]_vars

\* Request r is processed in this step: its body is parsed and accepted,
\* and POST runs on to the provider client.
Processed(r) ==
    /\ reqs[r].pc = "parsing"
    /\ reqs'[r].pc \in {"awaiting", "done"}
    /\ reqs'[r].mode # "none"

\* The conversation the request of r was dispatched with: sent upstream.
Conversation(q) ==
    IF q.outbound[1].api = "agents.responses"
    THEN q.outbound[1].input ELSE q.outbound[1].messages

\* C21: configuration is read fresh on every request: the mode choice
\* (agent, direct, or the simulated reply), the API version, the sampling
\* parameters and the default system instruction of a request are those of
\* the configuration in force in the step that processes it.
C21_ConfigReadFresh ==
    [][ \A r \in Reqs : Processed(r) =>
          LET q        == reqs'[r]
              agent    == env.AI_FOUNDRY_AGENT_ID \notin {None, Some("")}
              unset(v) == v \in {None, Some("")}
              complete ==
                  /\ ~unset(env.AI_FOUNDRY_ENDPOINT)
                  /\ ~unset(env.AI_FOUNDRY_API_KEY)
                  /\ agent \/ ~unset(env.AI_FOUNDRY_CHAT_DEPLOYMENT)
                           \/ ~unset(env.AI_FOUNDRY_DEPLOYMENT)
              instruction ==
                  IF env.AI_FOUNDRY_SYSTEM_PROMPT = None THEN ""
                  ELSE Trim(Val(env.AI_FOUNDRY_SYSTEM_PROMPT))
          IN  /\ q.mode = IF agent THEN "agent" ELSE "direct"
              /\ (q.pc = "awaiting") = complete
              /\ (q.pc = "done") => (q.outbound = <<>> /\ q.response.status = 200)
              /\ (q.pc = "awaiting") =>
                    /\ Len(q.outbound) = 1
                    /\ ~agent =>
                          /\ q.outbound[1].apiVersion =
                                IF env.AI_FOUNDRY_API_VERSION = None
                                THEN "2024-12-01-preview"
                                ELSE Val(env.AI_FOUNDRY_API_VERSION)
                          /\ q.outbound[1].temperature =
                                parseOptionalNumber(env.AI_FOUNDRY_TEMPERATURE)
                          /\ q.outbound[1].top_p =
                                parseOptionalNumber(env.AI_FOUNDRY_TOP_P)
                    /\ agent => q.outbound[1].apiVersion = AgentApiVersion(env)
                    /\ (Conversation(q)[1].role = "system") = (instruction # "")
                    /\ instruction # "" =>
                          Conversation(q)[1].content = instruction
      ]_vars

\* C21 witness: the first request was dispatched to the deployment with the
\* default API version; the configuration changed; the second was
\* dispatched with the new API version, temperature and instruction.
C21_Witness ==
    /\ reqs[1].pc = "awaiting"
    /\ reqs[2].pc = "awaiting"
    /\ reqs[1].outbound[1].api = "chat.completions"
    /\ reqs[1].outbound[1].apiVersion = "2024-12-01-preview"
    /\ reqs[1].outbound[1].temperature = None
    /\ reqs[2].outbound[1].api = "chat.completions"
    /\ reqs[2].outbound[1].apiVersion = "2025-01-01"
    /\ reqs[2].outbound[1].temperature = Some([nan |-> FALSE, num |-> 7, den |-> 10])
    /\ reqs[2].outbound[1].messages[1] = [role |-> "system", content |-> "Be exact."]
    /\ env.AI_FOUNDRY_API_VERSION = Some("2025-01-01")

----------------------------------------------------------------------------
(* Properties, continued *)

\* The agent endpoint answered the call with a payload.
AgentPayloadReceived ==
    /\ Answered
    /\ mode = "agent"
    /\ upstream.kind = "ok"

\* The text of a content item {text:{value}} or {value}.
ItemText(item) ==
    IF item.text # None THEN Nullish(Val(item.text).value, "")
    ELSE Nullish(item.value, "")

\* The content items of the blocks with role assistant, in order of
\* appearance.
RECURSIVE AssistantItems(_)
AssistantItems(blocks) ==
    IF blocks = <<>> THEN <<>>
    ELSE LET block == blocks[Len(blocks)]
             rest  == AssistantItems(SubSeq(blocks, 1, Len(blocks) - 1))
         IN  IF block.role = Some("assistant")
             THEN rest \o Nullish(block.content, <<>>)
             ELSE rest

\* The fragments the claim describes: the trimmed text of every such item
\* whose text is not empty after trimming.
Fragments(blocks) ==
    LET items   == AssistantItems(blocks)
        trimmed == [i \in 1..Len(items) |-> Trim(ItemText(items[i]))]
    IN  SelectSeq(trimmed, LAMBDA t : t # "")

\* C22: the content of an Agent Mode result is built only from the output
\* blocks with role assistant: every content item {text:{value}} or {value}
\* whose text is not empty after trimming contributes its trimmed text, in
\* order of appearance, the fragments joined by a blank line; other blocks
\* and blank fragments contribute nothing.
C22_AgentParsing ==
    AgentPayloadReceived =>
        LET fragments == Fragments(Nullish(upstream.data.output, <<>>))
        IN  IF fragments = <<>>
            THEN response.status = 502
            ELSE /\ response.status = 200
                 /\ response.body.content = Join(fragments, "\n\n")

\* C22 witness: assistant blocks of both item shapes, with a blank item, a
\* block without content and blocks of other roles in between, gave the two
\* trimmed fragments joined by a blank line.
C22_Witness ==
    /\ AgentPayloadReceived
    /\ Len(Nullish(upstream.data.output, <<>>)) = 5
    /\ response.status = 200
    /\ response.body.content = "A\n\nB"

\* The request made the chat completions call.
DirectCalled ==
    /\ Dispatched
    /\ mode = "direct"
    /\ Len(outbound) = 1

\* The sampling parameter a configured text stands for: none when the text
\* is unset, empty or blank, or is no number; else its number.
Sampling(text) ==
    IF text = None THEN None
    ELSE IF Trim(Val(text)) = "" THEN None
    ELSE IF Number(Val(text)).nan THEN None
    ELSE Some(Number(Val(text)))

\* C23: a temperature or top-p text that is unset, empty or not numeric is
\* treated as absent, the parameter being left out of the upstream request,
\* and never fails the request; a numeric text is sent as that number.
C23_SamplingParameters ==
    /\ DirectCalled =>
          /\ outbound[1].temperature = Sampling(env.AI_FOUNDRY_TEMPERATURE)
          /\ outbound[1].top_p = Sampling(env.AI_FOUNDRY_TOP_P)
    /\ (Dispatched /\ mode = "direct" /\ ~ConfigIncomplete) =>
          pc \in {"awaiting", "done"}

\* C23 failing state: the temperature is configured as one blank, and the
\* call carries temperature 0.
C23_Witness ==
    /\ DirectCalled
    /\ env.AI_FOUNDRY_TEMPERATURE = Some(" ")
    /\ outbound[1].temperature = Some([nan |-> FALSE, num |-> 0, den |-> 1])

\* C24: each request makes at most one outbound provider call, and a failure
\* of that call is the terminal failure of the request: it is answered 502
\* by the client that made the call, no second call is issued, and neither
\* the other mode nor the simulated reply is tried.
C24_NoRetry ==
    /\ Len(outbound) <= 1
    /\ (Answered /\ ~Settled.ok) =>
          /\ response.status = 502
          /\ ~fallback
          /\ Len(outbound) = 1
          /\ outbound[1].api = IF mode = "agent" THEN "agents.responses"
                               ELSE "chat.completions"
          /\ mode = IF AgentIdConfigured THEN "agent" ELSE "direct"

\* C24 witness: the chat completions call was rejected, and the request
\* ended in 502 with that one call made.
C24_Witness ==
    /\ Answered
    /\ mode = "direct"
    /\ upstream.kind = "throws"
    /\ Len(outbound) = 1
    /\ response.status = 502

\* C25: the turns sent upstream are the inbound turns in their order and
\* number, after at most one system turn prepended at position 0, each with
\* its normalized role and content; Direct Mode sends them as messages and
\* Agent Mode as input pairs {role, content}.
C25_OrderPreserved ==
    (Dispatched /\ Len(outbound) = 1) =>
        LET inbound == Val(body.messages)
            call    == outbound[1]
            sent    == IF mode = "agent" THEN call.input ELSE call.messages
            shift   == Len(sent) - Len(inbound)
        IN  /\ (mode = "agent") = ("input" \in DOMAIN call)
            /\ (mode = "direct") = ("messages" \in DOMAIN call)
            /\ shift \in {0, 1}
            /\ shift = 1 =>
                  /\ sent[1].role = "system"
                  /\ \A i \in 1..Len(inbound) : inbound[i].role # Some("system")
            /\ \A i \in 1..Len(inbound) :
                  /\ DOMAIN sent[i + shift] = {"role", "content"}
                  /\ sent[i + shift].role =
                        IF inbound[i].role = None THEN "user"
                        ELSE Val(inbound[i].role)
                  /\ sent[i + shift].content =
                        IF inbound[i].content = None THEN ""
                        ELSE Slice0(Val(inbound[i].content), MaxContent)

\* C25 witness: two turns of different roles and contents, the second
\* without a role, were sent to the agent in their order after the
\* prepended system turn.
C25_Witness ==
    /\ pc = "awaiting"
    /\ mode = "agent"
    /\ body.messages = Some(<< [role |-> Some("assistant"), content |-> Some(ExactText)],
                               [role |-> None, content |-> Some("Status?")] >>)
    /\ Len(outbound[1].input) = 3
    /\ outbound[1].input[2].role = "assistant"
    /\ outbound[1].input[3] = [role |-> "user", content |-> "Status?"]

\* The console calls that were handed an exception object of a provider
\* failure: the one a client caught, or the Error the client threw to POST.
ExceptionLogs ==
    {i \in 1..Len(logs) : logs[i].exception \in {"upstream", "client"}}

\* C26: an exception object of a provider failure is written to the console
\* only when LOG_VERBOSE is "true" (in any letter case); with verbose logging
\* off a provider failure writes no exception object; and the body of the 502
\* response has the one field `error`, the message, never the exception.
C26_RawExceptionLogging ==
    /\ ExceptionLogs # {} => isVerboseLoggingEnabled(env)
    /\ (pc = "done" /\ response.status = 502)
           => DOMAIN response.body = {"error"}

\* A provider call failed with verbose logging off, and POST's catch wrote
\* the caught Error to the console.
C26_Witness ==
    /\ pc = "done"
    /\ response.status = 502
    /\ ~isVerboseLoggingEnabled(env)
    /\ upstream.kind \notin {"none", "ok"}
    /\ \E i \in 1..Len(logs) :
           logs[i] = Log("AI Foundry chat failure", "client")

\* The positions of the span-end record among the records of the request span
SpanEnds == {i \in 1..Len(events) : events[i].name = "span.end"}

ModeIdentifier ==
    IF mode = "agent" THEN env.AI_FOUNDRY_AGENT_ID
    ELSE IF IsSome(env.AI_FOUNDRY_CHAT_DEPLOYMENT)
    THEN env.AI_FOUNDRY_CHAT_DEPLOYMENT
    ELSE env.AI_FOUNDRY_DEPLOYMENT

ConfigComplete ==
    /\ env.AI_FOUNDRY_ENDPOINT \notin {None, Some("")}
    /\ env.AI_FOUNDRY_API_KEY \notin {None, Some("")}
    /\ ModeIdentifier \notin {None, Some("")}

\* C28: once a client has been chosen, the simulated reply is returned
\* exactly when endpoint, key or the identifier of the mode is missing, and
\* then no outbound call is made and no provider reply is awaited; one
\* outbound call is made exactly when all three are present.
C28_FallbackIsCompleteness ==
    mode # "none" =>
        /\ fallback = ~ConfigComplete
        /\ Len(outbound) = (IF ConfigComplete THEN 1 ELSE 0)
        /\ ~ConfigComplete =>
               /\ upstream.kind = "none"
               /\ pc = "done"
               /\ response.status = 200

\* Agent Mode was chosen with the key missing: the simulated reply came back
\* and nothing was sent.
C28_Witness ==
    /\ mode = "agent"
    /\ env.AI_FOUNDRY_ENDPOINT # None
    /\ env.AI_FOUNDRY_API_KEY = None
    /\ fallback
    /\ outbound = <<>>
    /\ pc = "done"

----------------------------------------------------------------------------
(* One configuration snapshot per request *)

\* Request q went the way one reading of configuration e sends it: the
\* system instruction, the dispatch decision, the completeness check of the
\* chosen client, the API version and the sampling parameters are all e's.
SeesSnapshot(e, q) ==
    LET agent    == e.AI_FOUNDRY_AGENT_ID \notin {None, Some("")}
        messages == applySystemPrompt(Sanitize(Val(q.body.messages)),
                                      SystemPromptOf(e))
        started  == IF agent THEN completeChatWithAgent(e, messages)
                    ELSE completeChatWithAiFoundry(e, messages)
    IN  /\ q.mode = (IF agent THEN "agent" ELSE "direct")
        /\ IF started.call
           THEN /\ q.pc \in {"awaiting", "done"}
                /\ q.outbound = started.request
           ELSE /\ q.pc = "done"
                /\ q.outbound = <<>>
                /\ q.response = JsonResponse(200, started.result)

----------------------------------------------------------------------------
(* components/ChatPanel: the chat panel of the browser *)

\* Sends of one panel.
MaxSends == 2

\* Latest reading of the clock.
MaxClock == 2

\* What the user types or picks from the quick prompts.
InputTexts == {"", " Status? ", "Ready"}

\* Bodies of a 200 answer of /api/chat.
ChatResponses ==
    { [content |-> "All crews are on site.", warnings |-> None],
      [content |-> "Simulated.",
       warnings |-> Some(<<"Set AI_FOUNDRY_ENDPOINT", "No key">>)] }

\* Answers of /api/chat with a status that is not ok; text is what
\* response.text() yields, None when it rejects.
ChatFailures ==
    { [status |-> 502, text |-> Some("{\"error\":\"boom\"}")],
      [status |-> 500, text |-> Some("")],
      [status |-> 400, text |-> None] }

\* What fetch or response.json() rejects with: an Error or something else.
ChatRejections ==
    { [isError |-> TRUE, message |-> "Failed to fetch"],
      [isError |-> FALSE, message |-> ""] }

\* Date.now() in a template literal
DateNow(u) == ToString(u.now)

\* chain.map(({ role, content }) => ({ role, content }))
PostedChain(chain) ==
    [i \in 1..Len(chain) |-> [role |-> chain[i].role,
                              content |-> chain[i].content]]

chainWithAssistant(chain, assistantMessage) == chain \o <<assistantMessage>>

decorateWarnings(content, warnings) ==
    IF Nullish(warnings, <<>>) = <<>> THEN content
    ELSE LET ws == Val(warnings)
         IN  Join([i \in 1..Len(ws) |-> "WARNING: " \o ws[i]], "\n")
             \o "\n\n" \o content

\* safeRead and `errorText || ...` of a response that is not ok
FailureMessage(failure) ==
    IF Truthy(failure.text) THEN Val(failure.text)
    ELSE "Request failed with " \o ToString(failure.status)

\* prev.map((message) => message.id === assistantPlaceholder.id
\*     ? { ...message, content, status } : message)
ReplaceById(messages, id, content, status) ==
    [i \in 1..Len(messages) |->
        IF messages[i].id = id
        THEN [messages[i] EXCEPT !.content = content, !.status = status]
        ELSE messages[i]]

\* The user entries of the panel: one per send.
Sends(u) == Len(SelectSeq(u.messages, LAMBDA m : m.role = "user"))

InitChatPanel ==
    /\ env = DirectEnv
    /\ pc = "idle"
    /\ body = [kind |-> "none", messages |-> None]
    /\ sanitized = <<>>
    /\ prepared = <<>>
    /\ mode = "none"
    /\ fallback = FALSE
    /\ outbound = <<>>
    /\ upstream = NoReply
    /\ response = NoResponse
    /\ events = <<>>
    /\ fault = "none"
    /\ reqs = [r \in Reqs |-> IdleRequest]
    /\ logs = <<>>
    /\ ui = MountedPanel

Broker == <<env, pc, body, sanitized, prepared, mode, fallback, outbound,
            upstream, response, events, fault, reqs, logs>>

\* Time passes.
ClockTick ==
    /\ ui.now < MaxClock
    /\ ui' = [ui EXCEPT !.now = ui.now + 1]
    /\ UNCHANGED Broker

\* onChange of the textarea and handleQuickPrompt: setInput
setInput ==
    /\ \E text \in InputTexts :
          /\ text # ui.input
          /\ ui' = [ui EXCEPT !.input = text]
    /\ UNCHANGED Broker

\* The submit button is pressed (it is disabled while isSending or while the
\* trimmed input is empty): handleSubmit, and sendMessage up to its await of
\* fetch.
handleSubmit ==
    /\ ~ui.isSending
    /\ Trim(ui.input) # ""
    /\ Sends(ui) < MaxSends
    /\ LET userEntry == [id |-> "user-" \o DateNow(ui), role |-> "user",
                         content |-> Trim(ui.input), status |-> None]
           nextChain == ui.messages \o <<userEntry>>
           assistantPlaceholder ==
               [id |-> "assistant-" \o DateNow(ui), role |-> "assistant",
                content |-> "Thinking...", status |-> Some("pending")]
       IN  ui' = [ui EXCEPT
                    !.messages = chainWithAssistant(nextChain,
                                                    assistantPlaceholder),
                    !.input = "",
                    !.isSending = TRUE,
                    !.panelError = None,
                    !.sent = << [placeholder |-> assistantPlaceholder,
                                 chain |-> nextChain,
                                 posted |-> PostedChain(nextChain)] >>]
    /\ UNCHANGED Broker

\* /api/chat answers 200 with a body: the try block to its end, and finally.
sendMessageResolves ==
    /\ ui.sent # <<>>
    /\ \E payload \in ChatResponses :
          ui' = [ui EXCEPT
                   !.messages =
                       ReplaceById(ui.messages, ui.sent[1].placeholder.id,
                                   decorateWarnings(payload.content,
                                                    payload.warnings),
                                   None),
                   !.isSending = FALSE,
                   !.sent = <<>>]
    /\ UNCHANGED Broker

\* sendMessage from the throw of `message` in its try block: catch, finally.
Caught(message) ==
    ui' = [ui EXCEPT
             !.messages = ReplaceById(ui.messages, ui.sent[1].placeholder.id,
                                      message, Some("error")),
             !.panelError = Some(message),
             !.isSending = FALSE,
             !.sent = <<>>]

\* /api/chat answers with a status that is not ok.
sendMessageNotOk ==
    /\ ui.sent # <<>>
    /\ \E failure \in ChatFailures : Caught(FailureMessage(failure))
    /\ UNCHANGED Broker

\* fetch rejects, or response.json() does.
sendMessageRejects ==
    /\ ui.sent # <<>>
    /\ \E thrown \in ChatRejections :
          Caught(IF thrown.isError THEN thrown.message
                 ELSE "Unexpected error sending chat")
    /\ UNCHANGED Broker

NextChatPanel ==
    \/ ClockTick
    \/ setInput
    \/ handleSubmit
    \/ sendMessageResolves
    \/ sendMessageNotOk
    \/ sendMessageRejects

\* One mounted ChatPanel and its user.
SpecChatPanel == InitChatPanel /\ [][NextChatPanel]_vars

\* The entries of the panel that are pending placeholders.
Pending(messages) ==
    {i \in 1..Len(messages) : messages[i].status = Some("pending")}

\* sendMessage is called in this step / its call of /api/chat settles.
SendStarts == ui.sent = <<>> /\ ui'.sent # <<>>
SendSettles == ui.sent # <<>> /\ ui'.sent = <<>>

\* C30: each sendMessage appends exactly one assistant placeholder with
\* status pending, after the chain it was given, and that chain holds no
\* pending placeholder; when the call settles, the placeholder of that send
\* and no other entry is replaced where it stands, by the reply with no
\* status, or by the error message with status error and panelError set to
\* it; and isSending, true during the send, is false again.
C30_SendLifecycle ==
    [][ /\ SendStarts =>
              LET n == Len(ui'.messages)
              IN  /\ n = Len(ui'.sent[1].chain) + 1
                  /\ SubSeq(ui'.messages, 1, n - 1) = ui'.sent[1].chain
                  /\ SubSeq(ui'.messages, 1, n - 2) = ui.messages
                  /\ ui'.messages[n].role = "assistant"
                  /\ Pending(ui'.messages) = Pending(ui.messages) \cup {n}
                  /\ Pending(ui'.sent[1].chain) = {}
                  /\ Len(ui'.sent[1].posted) = n - 1
                  /\ ui'.isSending
        /\ SendSettles =>
              LET at == Len(ui.sent[1].chain) + 1
              IN  /\ Len(ui'.messages) = Len(ui.messages)
                  /\ ui.messages[at].status = Some("pending")
                  /\ \A i \in 1..Len(ui.messages) :
                         i # at => ui'.messages[i] = ui.messages[i]
                  /\ ui'.messages[at].id = ui.messages[at].id
                  /\ ui'.messages[at].role = "assistant"
                  /\ \/ /\ ui'.messages[at].status = None
                        /\ ui'.panelError = None
                     \/ /\ ui'.messages[at].status = Some("error")
                        /\ ui'.panelError = Some(ui'.messages[at].content)
                  /\ ~ui'.isSending
      ]_vars

\* Two sends read the same Date.now(): their placeholders share an id, and
\* the settling of the second send rewrote the answer of the first as well.
C30_Witness ==
    /\ ~ui.isSending
    /\ ui.sent = <<>>
    /\ \E i, j \in 1..Len(ui.messages) :
           /\ i < j
           /\ ui.messages[i].id = ui.messages[j].id
           /\ ui.messages[i].role = "assistant"
           /\ ui.messages[i].content = ui.messages[j].content
           /\ ui.messages[j].status = Some("error")

=============================================================================
